---- MODULE Spec2Model ----
(***************************************************************************)
(* RedisBridge: a process-local message bus over one Redis pub/sub         *)
(* connection.  The model covers RedisBridge (bridge.py), the             *)
(* CallbackInterface registry (interfaces/callback.py) and the message     *)
(* codec (messages/).                                                       *)
(***************************************************************************)
EXTENDS Integers, Sequences, FiniteSets, TLC

\* ---------------------------------------------------------------- bounds
MaxEntries == 2      \* registered (interface, channel, filter, callback) entries
MaxInbound == 1      \* transport messages buffered for the dispatch loop
MaxIds     == 1      \* envelopes created by request()
MaxReplies == 1      \* Responses in flight or queued for one request id

\* ------------------------------------------------------------- universes
Channels   == {"x", "y"}
Ctl        == "__RedisBridge__"
Kinds      == {"Message", "Request", "Response"}
None       == "None"
Filters    == Kinds \cup {None}
Callbacks  == {"A", "B"}
Interfaces == {"ci"}
\* arguments register_callback is documented to reject: a channel that is not
\* a str (the int 5) and a callback that is not callable
NotAString  == "<int 5>"
NotCallable == "<not callable>"
KeyChannels == Channels \cup {NotAString}
Keys       == KeyChannels \X Filters

\* what RedisBridge.register is handed: the interfaces, and a plain observer
Observers  == Interfaces \cup {"o1"}

Callers    == {"p1"}
Bogus      == 0      \* a request id no request() of this bridge has produced
MsgId      == 0      \* stands for the uid() of an envelope nobody correlates on
NoId       == -1     \* Message and Request carry no request_id

VARIABLES
  _message_processors, \* [Interfaces -> [Keys -> Seq(Callbacks)]], a missing key is <<>>
  _observers,          \* RedisBridge._observers: channel -> set of observers
  subscribed,          \* channels the PubSub connection is subscribed to
  issued,              \* subscribe / unsubscribe commands issued by the last step
  last,                \* the last call made on the bridge and how it ended
  _thread,             \* the PubSub worker threads: "none"; "alive"; "busy"
                       \* while a callback the worker runs is blocked inside
                       \* request(); "abandoned" when self._thread is None but
                       \* the worker stop() gave up joining still runs; "two"
                       \* when self._thread is a new worker beside that one
  inbound,             \* raw messages the connection has received, oldest first
  _responses,          \* RedisBridge._responses: request id -> queue of Responses
  callers,             \* each foreground caller of request(): where it is
  nextId,              \* the next id uid() hands to a Request
  iterating,           \* the observer set the worker is iterating while it is
                       \* inside a callback: its channel and its size then
  codec_in,            \* the envelope handed to _encode
  codec_wire,          \* the JSON text handed to decode
  codec_out,           \* what decode returned, or that it raised
  registering,         \* the register call that has found its channel missing
                       \* and has not yet made the observer set
  registered           \* history: the entries of the callback tables, oldest first

registry == <<_message_processors, _observers, registered>>
vars == <<_message_processors, _observers, subscribed, issued, last,
          _thread, inbound, _responses, callers, nextId, iterating, registered,
          codec_in, codec_wire, codec_out, registering>>
codecvars == <<codec_in, codec_wire, codec_out>>
loopvars == <<_thread, inbound, _responses, callers, nextId, iterating>>

\* ---------------------------------------------------------------- helpers
\* a membership test that never finds the element
InSeqNever(x, s) == FALSE

InSeq(x, s) == \E n \in 1..Len(s) : s[n] = x

\* list.remove(x): drops the first occurrence of x
RECURSIVE Remove(_, _)
Remove(s, x) ==
  IF s = <<>> THEN <<>>
  ELSE IF Head(s) = x THEN Tail(s)
  ELSE <<Head(s)>> \o Remove(Tail(s), x)

\* every order in which a Python set with the elements of S can be iterated
Orders(S) ==
  {f \in [1..Cardinality(S) -> S] : \A x \in S : \E n \in 1..Cardinality(S) : f[n] = x}

NoIssue == [sub |-> [c \in Channels \cup {Ctl} |-> 0], unsub |-> [c \in Channels \cup {Ctl} |-> 0]]

\* The part of the bridge that register / deregister read and write.
BridgeState == [obs |-> _observers, subs |-> subscribed, iss |-> NoIssue, raised |-> FALSE]

\* _get_processors with the two lists joined the other way round
_get_processors_any_first(mp, channel, message_type) ==
  IF message_type = None
    THEN mp[<<channel, None>>]
    ELSE mp[<<channel, None>>] \o mp[<<channel, message_type>>]

\* _get_processors that takes the callbacks of every kind-filter of the channel
_get_processors_any_kind(mp, channel, message_type) ==
  IF message_type = None
    THEN mp[<<channel, None>>]
    ELSE mp[<<channel, "Message">>] \o mp[<<channel, "Request">>]
           \o mp[<<channel, "Response">>] \o mp[<<channel, None>>]

\* _get_processors that leaves out the callbacks registered under any
_get_processors_kind_only(mp, channel, message_type) ==
  mp[<<channel, message_type>>]

\* CallbackInterface._get_processors(channel, message_type)
_get_processors(mp, channel, message_type) ==
  IF message_type = None
    THEN mp[<<channel, None>>]
    ELSE mp[<<channel, message_type>>] \o mp[<<channel, None>>]

\* RedisBridge.subscribe(channel)
subscribe(b, channel) ==
  [b EXCEPT !.subs = @ \cup {channel}, !.iss.sub[channel] = @ + 1]

\* RedisBridge.register(observer, channel)
register(b, observer, channel) ==
  LET b1 == IF channel \notin DOMAIN b.obs
              THEN [subscribe(b, channel) EXCEPT
                      !.obs = [c \in DOMAIN b.obs \cup {channel} |->
                                 IF c = channel THEN {} ELSE b.obs[c]]]
              ELSE b
  IN [b1 EXCEPT !.obs[channel] = @ \cup {observer}]

\* The closing loop of RedisBridge.deregister: every channel whose observer
\* set is empty is unsubscribed (its key stays in _observers).
UnsubscribeEmpty(b) ==
  LET empty == {c \in DOMAIN b.obs : b.obs[c] = {}}
  IN [b EXCEPT !.subs = @ \ empty,
               !.iss.unsub = [c \in DOMAIN @ |-> IF c \in empty THEN @[c] + 1 ELSE @[c]]]

\* RedisBridge.deregister(observer, channel); channel = None is every channel.
\* set.remove and the dict lookup raise KeyError.
deregister(b, observer, channel) ==
  IF channel = None
    THEN UnsubscribeEmpty([b EXCEPT !.obs = [c \in DOMAIN @ |-> @[c] \ {observer}]])
  ELSE IF channel \notin DOMAIN b.obs \/ observer \notin b.obs[channel]
    THEN [b EXCEPT !.raised = TRUE]
  ELSE UnsubscribeEmpty([b EXCEPT !.obs[channel] = @ \ {observer}])

\* number of registration entries of a channel, all interfaces and filters
EntryCount(mps, channel) ==
  LET per(i) == Len(mps[i][<<channel, None>>]) + Len(mps[i][<<channel, "Message">>])
                + Len(mps[i][<<channel, "Request">>]) + Len(mps[i][<<channel, "Response">>])
      RECURSIVE sum(_)
      sum(S) == IF S = {} THEN 0
                ELSE LET i == CHOOSE j \in S : TRUE IN per(i) + sum(S \ {i})
  IN sum(Interfaces)

EntryTotal(mps) ==
  LET RECURSIVE sum(_)
      sum(S) == IF S = {} THEN 0
                ELSE LET c == CHOOSE d \in S : TRUE IN EntryCount(mps, c) + sum(S \ {c})
  IN sum(KeyChannels)

Entry(i, channel, filter, callback) ==
  [i |-> i, channel |-> channel, filter |-> filter, cb |-> callback]

\* CallbackInterface.register_callback(callback, channel, message_type)
register_callback(i, callback, channel, message_type) ==
  LET mp == _message_processors[i]
  IN IF InSeq(callback, _get_processors(mp, channel, message_type))
       THEN \* warning: already registered
            /\ UNCHANGED <<registry, subscribed, loopvars, codecvars, registering>>
            /\ issued' = NoIssue
            /\ last' = [op |-> "register_callback", raised |-> FALSE, added |-> FALSE]
       ELSE /\ EntryTotal(_message_processors) < MaxEntries
            /\ registered' = Append(registered, Entry(i, channel, message_type, callback))
            /\ _message_processors' =
                 [_message_processors EXCEPT
                    ![i][<<channel, message_type>>] = Append(@, callback)]
            /\ IF channel = NotAString /\ channel \notin DOMAIN _observers
                 THEN \* subscribe(**{channel: ...}) raises TypeError: the keyword
                      \* is not a str; the entry stays in the table
                      /\ UNCHANGED <<_observers, subscribed>>
                      /\ issued' = NoIssue
                      /\ last' = [op |-> "register_callback", raised |-> TRUE,
                                  added |-> TRUE]
                 ELSE LET b == register(BridgeState, i, channel)
                      IN /\ _observers' = b.obs
                         /\ subscribed' = b.subs
                         /\ issued' = b.iss
                         /\ last' = [op |-> "register_callback", raised |-> FALSE,
                                     added |-> TRUE]
            /\ UNCHANGED <<loopvars, codecvars, registering>>

\* message_type given as the name of a message class
Names == {"'Message'", "'Request'", "'Response'"}

\* getattr(messages, message_type) for a str message_type (callback.py:53-57)
message_class(message_type) ==
  CASE message_type = "'Message'"  -> "Message"
    [] message_type = "'Request'"  -> "Request"
    [] message_type = "'Response'" -> "Response"
    [] OTHER                       -> message_type

\* The second loop of deregister_callback over the keys in `removed`, taken in
\* the order `order`; a KeyError out of RedisBridge.deregister ends the call.
RECURSIVE DeregisterLoop(_, _, _, _)
DeregisterLoop(order, mp, b, i) ==
  IF order = <<>> \/ b.raised THEN [mp |-> mp, b |-> b]
  ELSE LET c   == Head(order)[1]
           mp1 == [mp EXCEPT ![Head(order)] = <<>>]
       IN IF Len(_get_processors(mp1, c, None)) = 0
            THEN DeregisterLoop(Tail(order), mp1, deregister(b, i, c), i)
            ELSE DeregisterLoop(Tail(order), mp1, b, i)

\* the keys deregister_callback removes the callback from
Matching(mp, callback, channel, message_type) ==
  {k \in Keys : /\ channel \in {k[1], None}
                /\ message_type \in {k[2], None}
                /\ InSeq(callback, mp[k])}

\* CallbackInterface.deregister_callback(callback, channel, message_type)
deregister_callback(i, callback, channel, message_type) ==
  LET mp      == _message_processors[i]
      removed == Matching(mp, callback, channel, message_type)
      mp0     == [k \in Keys |-> IF k \in removed THEN Remove(mp[k], callback) ELSE mp[k]]
  IN \E order \in Orders(removed) :
       LET r == DeregisterLoop(order, mp0, BridgeState, i)
           Kept(e) == e.i # i \/ InSeq(e.cb, r.mp[<<e.channel, e.filter>>])
       IN /\ _message_processors' = [_message_processors EXCEPT ![i] = r.mp]
          /\ registered' = SelectSeq(registered, Kept)
          /\ _observers' = r.b.obs
          /\ subscribed' = r.b.subs
          /\ issued' = r.b.iss
          /\ last' = [op |-> "deregister_callback", raised |-> r.b.raised,
                      added |-> FALSE]
          /\ UNCHANGED <<loopvars, codecvars, registering>>

\* RedisBridge.register(observer, channel), called by a client
bridge_register(observer, channel) ==
  LET b == register(BridgeState, observer, channel)
  IN /\ _observers' = b.obs
     /\ subscribed' = b.subs
     /\ issued' = b.iss
     /\ last' = [op |-> "register", raised |-> FALSE, added |-> FALSE]
     /\ UNCHANGED <<_message_processors, registered, loopvars, codecvars, registering>>

NotRegistering == [observer |-> None, channel |-> None]

\* register(observer, channel) evaluates `not channel in self._observers.keys()`
\* (line 135) to True; no lock is held, other calls run before line 136
register_check(observer, channel) ==
  /\ registering = NotRegistering
  /\ channel \notin DOMAIN _observers
  /\ registering' = [observer |-> observer, channel |-> channel]
  /\ issued' = NoIssue
  /\ last' = [op |-> "register", raised |-> FALSE, added |-> FALSE]
  /\ UNCHANGED <<registry, subscribed, loopvars, codecvars>>

\* the rest of that call (lines 136-140): subscribe, self._observers[channel]
\* = set() whatever is stored there by now, and the add
register_create ==
  LET channel == registering.channel
      b == subscribe(BridgeState, channel)
  IN /\ registering # NotRegistering
     /\ _observers' = [c \in DOMAIN _observers \cup {channel} |->
                         IF c = channel THEN {registering.observer} ELSE _observers[c]]
     /\ subscribed' = b.subs
     /\ issued' = b.iss
     /\ registering' = NotRegistering
     /\ last' = [op |-> "register", raised |-> FALSE, added |-> FALSE]
     /\ UNCHANGED <<_message_processors, registered, loopvars, codecvars>>

\* RedisBridge.deregister(observer, channel), called by a client
bridge_deregister(observer, channel) ==
  LET b == deregister(BridgeState, observer, channel)
  IN /\ _observers' = b.obs
     /\ subscribed' = b.subs
     /\ issued' = b.iss
     /\ last' = [op |-> "deregister", raised |-> b.raised, added |-> FALSE]
     /\ UNCHANGED <<_message_processors, registered, loopvars, codecvars, registering>>

\* ------------------------------------------------------------------ codec
\* Python values handed to send / request / respond as data.
Int7     == [ty |-> "int", v |-> "7"]
StrAbc   == [ty |-> "str", v |-> "abc"]
Set7     == [ty |-> "set", v |-> "{7}"]
\* str values whose text is the base64 of a pickle
B64Int7  == [ty |-> "str", v |-> "b64(pickle(7))"]
B64Set7  == [ty |-> "str", v |-> "b64(pickle({7}))"]
B64Abc   == [ty |-> "str", v |-> "b64(pickle('abc'))"]

\* codecs.encode(pickle.dumps(data), 'base64').decode()
PickleB64(data) ==
  CASE data = Int7   -> B64Int7
    [] data = Set7   -> B64Set7
    [] data = StrAbc -> B64Abc
    [] OTHER         -> [ty |-> "str", v |-> "b64(pickle(str))"]

Loadable == {B64Int7, B64Set7, B64Abc}

\* pickle.loads(codecs.decode(text.encode(), 'base64')), where it succeeds
Unpickle(text) ==
  CASE text = B64Int7 -> Int7
    [] text = B64Set7 -> Set7
    [] text = B64Abc  -> StrAbc

\* json.dumps accepts the value (no TypeError)
JsonSerializable(data) == data.ty \in {"int", "str"}

\* Message._encode: the JSON object published on the channel
_encode(msg) ==
  [type |-> msg.kind, id |-> msg.id, channel |-> msg.channel,
   data |-> IF JsonSerializable(msg.data) THEN msg.data ELSE PickleB64(msg.data),
   request_id |-> msg.request_id]

\* A key the JSON object does not have: 'type' and 'channel' are Absent, 'id'
\* and 'request_id' are NoId, 'data' is AbsentData.
Absent     == "<absent>"
AbsentData == [ty |-> "absent", v |-> ""]
\* a 'type' that is no key of MESSAGE_CLASSES
Invalid    == "Invalid"
\* bytes that json.loads rejects
NotJson    == "<not JSON>"
\* a request_id that is a JSON array: a Python list
ListId     == -2

\* decode where pickle.loads failing on a str payload is not caught
decode_raises_on_text(raw) ==
  \/ raw.type \notin Kinds
  \/ raw.id = NoId
  \/ raw.channel = Absent
  \/ raw.data = AbsentData
  \/ raw.type = "Response" /\ raw.request_id = NoId
  \/ raw.data.ty = "str" /\ raw.data \notin Loadable

\* messages.decode raises: json.loads fails, json_data['type'] is missing or
\* no message class, or _decode reads a key that is missing.  The bare except
\* of Message._decode keeps every failure of the unpickling inside.
decode_raises(raw) ==
  \/ raw.type \notin Kinds
  \/ raw.id = NoId
  \/ raw.channel = Absent
  \/ raw.data = AbsentData
  \/ raw.type = "Response" /\ raw.request_id = NoId

\* messages.decode / Message._decode / Response._decode, where they return
decode(raw) ==
  [kind |-> raw.type, id |-> raw.id, channel |-> raw.channel,
   data |-> IF raw.data.ty = "str" /\ raw.data \in Loadable
              THEN Unpickle(raw.data) ELSE raw.data,
   request_id |-> IF raw.type = "Response" THEN raw.request_id ELSE NoId]

\* Message(channel, data), Request(channel, data), Response(channel, data, request_id)
Envelope(kind, id, channel, data, request_id) ==
  [kind |-> kind, id |-> id, channel |-> channel, data |-> data,
   request_id |-> request_id]

\* The codec on its own: an envelope is encoded and the text decoded, or a
\* text that some other client published is decoded.
Datas == {Int7, StrAbc, Set7, B64Int7, B64Set7, B64Abc}

Nothing     == Envelope("none", NoId, None, AbsentData, NoId)
NoWire      == [type |-> "none", id |-> NoId, channel |-> None,
                data |-> AbsentData, request_id |-> NoId]
DecodeError == Envelope("raised", NoId, None, AbsentData, NoId)

\* the envelopes the constructors make
Envelopes ==
  {Envelope(k, i, c, d, NoId) :
     k \in {"Message", "Request"}, i \in {MsgId, 1}, c \in Channels, d \in Datas}
  \cup {Envelope("Response", i, c, d, r) :
          i \in {MsgId, 1}, c \in Channels, d \in Datas, r \in {Bogus, 1}}

\* JSON objects with and without each key, and bytes that are no JSON
Wires ==
  [type : Kinds \cup {Invalid, Absent}, id : {MsgId, NoId},
   channel : {"x", Absent}, data : Datas \cup {AbsentData},
   request_id : {Bogus, NoId, ListId}]
  \cup {[type |-> NotJson, id |-> NoId, channel |-> Absent,
          data |-> AbsentData, request_id |-> NoId]}

\* msg._encode()
Encode ==
  /\ codec_in # Nothing
  /\ codec_wire = NoWire
  /\ codec_wire' = _encode(codec_in)
  /\ UNCHANGED <<registry, subscribed, issued, last, loopvars, codec_in, codec_out, registering>>

\* messages.decode(message)
Decode ==
  /\ codec_wire # NoWire
  /\ codec_out = Nothing
  /\ codec_out' = IF decode_raises(codec_wire) THEN DecodeError
                                                ELSE decode(codec_wire)
  /\ UNCHANGED <<registry, subscribed, issued, last, loopvars, codec_in, codec_wire, registering>>

\* ------------------------------------------------------------- transport
\* a publish that reaches no connection
publish_nowhere(channel, raw) == inbound

\* connection.publish(channel, raw): Redis hands the message to the
\* connections subscribed to the channel at that moment.
publish(channel, raw) ==
  IF channel \in subscribed THEN Append(inbound, raw) ELSE inbound

Room(channel) == channel \in subscribed => Len(inbound) < MaxInbound

\* ------------------------------------------------------------- start/stop
\* start(): `if self._thread and self._thread.is_alive()` warns, else a new
\* worker is made by run_in_thread
run_in_thread(thread) ==
  CASE thread \in {"alive", "busy", "two"} -> thread
    [] thread = "abandoned"                -> "two"
    [] OTHER                               -> "alive"

\* stop(): self._thread is stopped, joined and forgotten; a worker that an
\* earlier stop() abandoned is not self._thread and stays
joined(thread) == IF thread \in {"two", "abandoned"} THEN "abandoned" ELSE "none"

\* the worker threads that are running
Loops ==
  CASE _thread = "none" -> 0
    [] _thread = "two"  -> 2
    [] OTHER            -> 1

\* RedisBridge.start()
start ==
  LET b == subscribe(BridgeState, Ctl)
  IN /\ subscribed' = b.subs
     /\ issued' = b.iss
     /\ _thread' = run_in_thread(_thread)
     /\ last' = [op |-> "start", raised |-> FALSE, added |-> FALSE]
     /\ UNCHANGED <<registry, inbound, _responses, callers, nextId, iterating, codecvars, registering>>

\* RedisBridge.stop(): the worker is stopped and joined; PubSub.close() drops
\* the connection with every subscription and everything it had buffered.
stop ==
  /\ _thread # "busy"     \* join() returns when the worker has left its callback
  /\ _thread' = joined(_thread)
  /\ subscribed' = {}
  /\ inbound' = <<>>
  /\ issued' = NoIssue
  /\ last' = [op |-> "stop", raised |-> FALSE, added |-> FALSE]
  /\ callers' = [p \in Callers |-> [callers[p] EXCEPT !.answered = FALSE]]
  /\ UNCHANGED <<registry, _responses, nextId, iterating, codecvars, registering>>

\* RedisBridge.stop(timeout) while the worker is blocked in a callback:
\* join(timeout) gives up, self._thread is set to None all the same
\* (bridge.py:223-225) and the PubSub is closed; the worker is still running.
stop_expired ==
  /\ _thread = "busy"
  /\ _thread' = "abandoned"
  /\ subscribed' = {}
  /\ inbound' = <<>>
  /\ issued' = NoIssue
  /\ last' = [op |-> "stop", raised |-> FALSE, added |-> FALSE]
  /\ callers' = [p \in Callers |-> [callers[p] EXCEPT !.answered = FALSE]]
  /\ UNCHANGED <<registry, _responses, nextId, iterating, codecvars, registering>>

\* --------------------------------------------------------------- publish
\* RedisBridge.send(data, channel)
send(data, channel) ==
  /\ Room(channel)
  /\ inbound' = publish(channel, _encode(Envelope("Message", MsgId, channel, data, NoId)))
  /\ issued' = NoIssue
  /\ last' = [op |-> "send", raised |-> FALSE, added |-> FALSE]
  /\ UNCHANGED <<registry, subscribed, _thread, _responses, callers, nextId, iterating, codecvars, registering>>

\* The Responses for request id rid that are buffered or queued.
Replies(rid) ==
  Cardinality({n \in 1..Len(inbound) :
                 inbound[n].type = "Response" /\ inbound[n].request_id = rid})
  + (IF rid \in DOMAIN _responses THEN Len(_responses[rid]) ELSE 0)

\* History kept in callers[p].answered: while the bridge is started and has a
\* callback registered on the channel of p's pending request, a responder
\* publishes the Response to that request on that channel.
Answers(p, channel, request_id) ==
  /\ callers[p].pc \in {"published", "creating", "waiting"}
  /\ callers[p].id = request_id
  /\ callers[p].channel = channel
  /\ _thread = "alive"
  /\ EntryCount(_message_processors, channel) > 0

\* RedisBridge.respond(data, channel, request_id), on this bridge or on any
\* other bridge of the same Redis server
respond(data, channel, request_id) ==
  /\ Room(channel)
  /\ Replies(request_id) < MaxReplies
  /\ inbound' = publish(channel,
                        _encode(Envelope("Response", MsgId, channel, data, request_id)))
  /\ callers' = [p \in Callers |->
                   IF Answers(p, channel, request_id)
                     THEN [callers[p] EXCEPT !.answered = TRUE] ELSE callers[p]]
  /\ issued' = NoIssue
  /\ last' = [op |-> "respond", raised |-> FALSE, added |-> FALSE]
  /\ UNCHANGED <<registry, subscribed, _thread, _responses, nextId, iterating, codecvars, registering>>

\* --------------------------------------------------------------- request
NoResult == Envelope("none", MsgId, None, Int7, NoId)

Idle == [pc |-> "idle", id |-> Bogus, channel |-> None, timeout |-> "none",
         answered |-> FALSE, result |-> NoResult]

Timeouts == {"none", "positive"}

\* timeout=None and timeout=0
Untimed == {"none", "zero"}

\* request(data, channel, blocking=True, timeout): the Request is created and
\* published (lines 265-266)
request_publish(p, data, channel, timeout) ==
  /\ callers[p].pc \in {"idle", "returned", "raised"}
  /\ nextId <= MaxIds
  /\ Room(channel)
  /\ inbound' = publish(channel, _encode(Envelope("Request", nextId, channel, data, NoId)))
  /\ callers' = [callers EXCEPT ![p] =
                   [pc |-> "published", id |-> nextId, channel |-> channel,
                    timeout |-> timeout, answered |-> FALSE, result |-> NoResult]]
  /\ nextId' = nextId + 1
  /\ issued' = NoIssue
  /\ last' = [op |-> "request", raised |-> FALSE, added |-> FALSE]
  /\ UNCHANGED <<registry, subscribed, _thread, _responses, iterating, codecvars, registering>>

\* the values uid() can return: 8 characters drawn by random.choices, which
\* nothing keeps apart from the values drawn before
Uids == 1..(MaxIds + 1)

\* request(data, channel, blocking=True, timeout) where the Request's id is
\* whatever uid() draws; nextId counts the requests made
request_uid(p, data, channel, timeout, id) ==
  /\ callers[p].pc \in {"idle", "returned", "raised"}
  /\ nextId <= MaxIds + 1
  /\ Room(channel)
  /\ inbound' = publish(channel, _encode(Envelope("Request", id, channel, data, NoId)))
  /\ callers' = [callers EXCEPT ![p] =
                   [pc |-> "published", id |-> id, channel |-> channel,
                    timeout |-> timeout, answered |-> FALSE, result |-> NoResult]]
  /\ nextId' = nextId + 1
  /\ issued' = NoIssue
  /\ last' = [op |-> "request", raised |-> FALSE, added |-> FALSE]
  /\ UNCHANGED <<registry, subscribed, _thread, _responses, iterating, codecvars, registering>>

\* request(data, channel, blocking=False): publishes and returns the id
request_nonblocking(data, channel) ==
  /\ nextId <= MaxIds
  /\ Room(channel)
  /\ inbound' = publish(channel, _encode(Envelope("Request", nextId, channel, data, NoId)))
  /\ nextId' = nextId + 1
  /\ issued' = NoIssue
  /\ last' = [op |-> "request", raised |-> FALSE, added |-> FALSE]
  /\ UNCHANGED <<registry, subscribed, _thread, _responses, callers, iterating, codecvars, registering>>

\* self._responses[msg.id]: the defaultdict makes the queue if it is missing
Slot(rs, rid) ==
  IF rid \in DOMAIN rs THEN rs
  ELSE [r \in DOMAIN rs \cup {rid} |-> IF r = rid THEN <<>> ELSE rs[r]]

\* request reaches self._responses[msg.id].get(timeout) (line 274): the slot
\* exists from here on
request_wait(p) ==
  /\ callers[p].pc = "published"
  /\ _responses' = Slot(_responses, callers[p].id)
  /\ callers' = [callers EXCEPT ![p].pc = "waiting"]
  /\ issued' = NoIssue
  /\ last' = [op |-> "request", raised |-> FALSE, added |-> FALSE]
  /\ UNCHANGED <<registry, subscribed, _thread, inbound, nextId, iterating, codecvars, registering>>

\* self._responses[msg.id] in request (line 274) when the key is missing:
\* defaultdict.__missing__ calls queue.Queue(), which runs Python code, before
\* it stores the new queue; other threads run in between
request_miss(p) ==
  /\ callers[p].pc = "published"
  /\ callers[p].id \notin DOMAIN _responses
  /\ callers' = [callers EXCEPT ![p].pc = "creating"]
  /\ issued' = NoIssue
  /\ last' = [op |-> "request", raised |-> FALSE, added |-> FALSE]
  /\ UNCHANGED <<registry, subscribed, _thread, inbound, _responses, nextId,
                 iterating, codecvars, registering>>

\* __missing__ stores the caller's new, empty queue under the key, over a
\* queue the worker thread stored there in the meantime, and request waits
\* on its own queue
request_store(p) ==
  /\ callers[p].pc = "creating"
  /\ _responses' = [Slot(_responses, callers[p].id) EXCEPT ![callers[p].id] = <<>>]
  /\ callers' = [callers EXCEPT ![p].pc = "waiting"]
  /\ issued' = NoIssue
  /\ last' = [op |-> "request", raised |-> FALSE, added |-> FALSE]
  /\ UNCHANGED <<registry, subscribed, _thread, inbound, nextId, iterating, codecvars, registering>>

\* request() ends: a worker thread that was blocked in it goes on with the
\* callback and the rest of its dispatch
resume(thread) ==
  CASE thread = "busy"      -> "alive"
    [] thread = "abandoned" -> "none"     \* the stopped worker leaves its loop
    [] thread = "two"       -> "alive"
    [] OTHER                -> thread

\* RuntimeError leaves _on_message: the worker thread that ran it ends
crashed(thread) == IF thread = "two" THEN "alive" ELSE "none"

NoIteration == [channel |-> None, used |-> 0]

\* `for observer in self._observers[message.channel]` (bridge.py:376) asks the
\* set iterator for the next observer once the callback has returned: the
\* iterator raises RuntimeError when the set has another size than at the start
set_changed ==
  /\ iterating.channel # None
  /\ Cardinality(_observers[iterating.channel]) # iterating.used

\* the callback that called request() returns to the worker's for loop, which
\* is outside the try of bridge.py:377
after_callback(thread) == IF set_changed THEN crashed(thread) ELSE resume(thread)

\* Queue.get finds a Response in the slot and request returns it
request_return(p) ==
  LET rid == callers[p].id
  IN /\ callers[p].pc = "waiting"
     /\ _responses[rid] # <<>>
     /\ _responses' = [_responses EXCEPT ![rid] = Tail(@)]
     /\ callers' = [callers EXCEPT ![p].pc = "returned",
                                   ![p].result = Head(_responses[rid])]
     /\ _thread' = after_callback(_thread)
     /\ iterating' = NoIteration
     /\ issued' = NoIssue
     /\ last' = [op |-> "request", raised |-> FALSE, added |-> FALSE]
     /\ UNCHANGED <<registry, subscribed, inbound, nextId, codecvars, registering>>

\* the wait ends with queue.Empty: request raises TimeoutError.  Queue.get
\* raises Empty once `timeout` seconds have passed with the queue empty, and
\* with timeout=0 that is at once; with timeout=None it never does.
request_timeout(p) ==
  LET rid == callers[p].id
  IN /\ callers[p].pc = "waiting"
     /\ callers[p].timeout \in {"positive", "zero"}
     /\ _responses[rid] = <<>>
     /\ UNCHANGED _responses
     /\ callers' = [callers EXCEPT ![p].pc = "raised"]
     /\ _thread' = after_callback(_thread)
     /\ iterating' = NoIteration
     /\ issued' = NoIssue
     /\ last' = [op |-> "request", raised |-> TRUE, added |-> FALSE]
     /\ UNCHANGED <<registry, subscribed, inbound, nextId, codecvars, registering>>

\* ----------------------------------------------------------- dispatch loop
\* CallbackInterface._receive_redis(message): the callbacks run in the order
\* of _get_processors; one that raises ends the list comprehension.
RECURSIVE Invoked(_, _)
Invoked(processors, raisers) ==
  IF processors = <<>> THEN <<>>
  ELSE IF Head(processors) \in raisers THEN <<Head(processors)>>
  ELSE <<Head(processors)>> \o Invoked(Tail(processors), raisers)

_receive_redis(i, message, raisers) ==
  LET processors == _get_processors(_message_processors[i], message.channel, message.kind)
      run        == Invoked(processors, raisers)
  IN [calls   |-> [n \in 1..Len(run) |-> <<i, run[n]>>],
      raised  |-> \E n \in 1..Len(run) : run[n] \in raisers]

\* the for loop of _on_message over the observers of the channel, in `order`
RECURSIVE Forward(_, _, _)
Forward(order, message, raisers) ==
  IF order = <<>> THEN <<>>
  ELSE _receive_redis(Head(order), message, raisers).calls
         \o Forward(Tail(order), message, raisers)

\* a Response that is never handed to the correlation table
put_response_dropped(rs, message) == rs

\* put that takes a Response only on the channel its request was sent on
put_response_same_channel(rs, message) ==
  IF \E p \in Callers : /\ callers[p].id = message.request_id
                         /\ callers[p].channel = message.channel
    THEN [Slot(rs, message.request_id) EXCEPT ![message.request_id] = Append(@, message)]
    ELSE rs

\* put that hands the Response to every slot, whatever its request_id
put_response_every(rs, message) ==
  LET all == Slot(rs, message.request_id)
  IN [r \in DOMAIN all |-> Append(all[r], message)]

\* self._responses[message.request_id].put(message)
put_response(rs, message) ==
  [Slot(rs, message.request_id) EXCEPT ![message.request_id] = Append(@, message)]

\* self._responses[message.request_id] raises TypeError: a list is no key of
\* a dict
unhashable(message) == message.kind = "Response" /\ message.request_id = ListId

\* _on_message for a message that decode rejects: the except of lines 365-368
\* logs and returns
_on_message_undecodable ==
  /\ _thread \in {"alive", "two"}
  /\ inbound # <<>>
  /\ decode_raises(Head(inbound))
  /\ inbound' = Tail(inbound)
  /\ issued' = NoIssue
  /\ last' = [op |-> "_on_message", raised |-> FALSE, added |-> FALSE,
              message |-> DecodeError, raisers |-> {}, calls |-> <<>>]
  /\ UNCHANGED <<registry, subscribed, _thread, _responses, callers, nextId,
                 iterating, codecvars, registering>>

\* _on_message for a Response whose request_id is a list: line 372 raises
\* TypeError outside every try, and the worker thread that ran it ends
_on_message_unhashable ==
  /\ _thread \in {"alive", "two"}
  /\ inbound # <<>>
  /\ ~decode_raises(Head(inbound))
  /\ unhashable(decode(Head(inbound)))
  /\ inbound' = Tail(inbound)
  /\ _thread' = crashed(_thread)
  /\ issued' = NoIssue
  /\ last' = [op |-> "_on_message", raised |-> TRUE, added |-> FALSE,
              message |-> decode(Head(inbound)), raisers |-> {}, calls |-> <<>>]
  /\ UNCHANGED <<registry, subscribed, _responses, callers, nextId,
                 iterating, codecvars, registering>>

\* another client of the Redis server publishes `raw` on a channel the bridge
\* is subscribed to
foreign_publish(channel, raw) ==
  /\ Room(channel)
  /\ channel \in subscribed
  /\ raw.type = "Response" => Replies(raw.request_id) < MaxReplies
  /\ inbound' = publish(channel, raw)
  /\ issued' = NoIssue
  /\ last' = [op |-> "publish", raised |-> FALSE, added |-> FALSE]
  /\ UNCHANGED <<registry, subscribed, _thread, _responses, callers, nextId,
                 iterating, codecvars, registering>>

\* RedisBridge._on_message(message), run by the worker thread for the oldest
\* buffered message; `raisers` are the callbacks that raise on it
_on_message(raisers) ==
  /\ _thread \in {"alive", "two"}
  /\ inbound # <<>>
  /\ ~decode_raises(Head(inbound))
  /\ ~unhashable(decode(Head(inbound)))
  /\ LET message == decode(Head(inbound))
         targets == IF message.channel \in DOMAIN _observers
                      THEN _observers[message.channel] ELSE {}
         matched == {cb \in Callbacks : \E i \in targets :
                       InSeq(cb, _get_processors(_message_processors[i],
                                                 message.channel, message.kind))}
     IN /\ raisers \subseteq matched
        /\ _responses' =
             IF message.kind = "Response"
               THEN put_response(_responses, message) ELSE _responses
        /\ \E order \in Orders(targets) :
             last' = [op |-> "_on_message", raised |-> FALSE, added |-> FALSE,
                      message |-> message, raisers |-> raisers,
                      calls |-> Forward(order, message, raisers)]
  /\ inbound' = Tail(inbound)
  /\ issued' = NoIssue
  /\ UNCHANGED <<registry, subscribed, _thread, callers, nextId, iterating, codecvars, registering>>

\* _on_message for the oldest buffered message, where a callback it invokes
\* calls request(data, message.channel, blocking=True, timeout) for caller p:
\* callbacks run on the worker thread (callback.py:146 under bridge.py:378),
\* so the Request is published and the worker itself waits in Queue.get.
callback_request(p, timeout) ==
  /\ _thread = "alive"
  /\ inbound # <<>>
  /\ ~decode_raises(Head(inbound))
  /\ ~unhashable(decode(Head(inbound)))
  /\ callers[p].pc \in {"idle", "returned", "raised"}
  /\ nextId <= MaxIds
  /\ LET message == decode(Head(inbound))
         targets == IF message.channel \in DOMAIN _observers
                      THEN _observers[message.channel] ELSE {}
         matched == {cb \in Callbacks : \E i \in targets :
                       InSeq(cb, _get_processors(_message_processors[i],
                                                 message.channel, message.kind))}
         raw     == _encode(Envelope("Request", nextId, message.channel, Int7, NoId))
     IN /\ matched # {}
        /\ _responses' =
             IF message.kind = "Response"
               THEN put_response(_responses, message) ELSE _responses
        /\ inbound' = IF message.channel \in subscribed
                        THEN Append(Tail(inbound), raw) ELSE Tail(inbound)
        /\ callers' = [callers EXCEPT ![p] =
                         [pc |-> "published", id |-> nextId, channel |-> message.channel,
                          timeout |-> timeout, answered |-> FALSE, result |-> NoResult]]
  /\ nextId' = nextId + 1
  /\ _thread' = "busy"
  /\ iterating' = [channel |-> decode(Head(inbound)).channel,
                   used |-> Cardinality(_observers[decode(Head(inbound)).channel])]
  /\ issued' = NoIssue
  /\ last' = [op |-> "request", raised |-> FALSE, added |-> FALSE]
  /\ UNCHANGED <<registry, subscribed, codecvars, registering>>

\* ---------------------------------------------------------------- actions
\* Each operation, called with arguments drawn from the given sets.
Registers(cbs, chs, filters) ==
  \E i \in Interfaces, cb \in cbs, c \in chs, mt \in filters :
    register_callback(i, cb, c, mt)

Deregisters(cbs, chs, filters) ==
  \E i \in Interfaces, cb \in cbs, c \in chs \cup {None}, mt \in filters :
    deregister_callback(i, cb, c, mt)

Sends(chs) == \E c \in chs : send(Int7, c)

\* the ids request() has handed out so far
IssuedIds == 1..(nextId - 1)

Responds(datas, chs, ids) ==
  \E d \in datas, c \in chs, r \in ids : respond(d, c, r)

NonBlockingRequests(chs) == \E c \in chs : request_nonblocking(Int7, c)

Requests(chs, timeouts) ==
  \E p \in Callers, c \in chs, t \in timeouts : request_publish(p, Int7, c, t)

\* the registry specifications: every callback, channel and kind-filter
RegisterCallback == Registers(Callbacks, Channels, Filters)

DeregisterCallback == Deregisters(Callbacks, Channels, Filters)

\* the dispatch specifications: two callbacks on channel x under the filters
\* any and Request, Responses to an id nobody waits on
RegisterAB == Registers(Callbacks, {"x"}, {None, "Request"})

DeregisterAB == Deregisters(Callbacks, {"x"}, {None, "Request"})

\* a callback on the second channel, and Messages on both channels
RegisterAY == Registers({"A"}, {"y"}, {None})

SendXY == Sends(Channels)

SendX == Sends({"x"})

RespondX == Responds({Int7}, {"x"}, {Bogus})

RequestNonBlockingX == NonBlockingRequests({"x"})

\* the whole-bridge specification: one callback, one channel
RegisterA == Registers({"A"}, {"x"}, {None})

DeregisterA == Deregisters({"A"}, {"x"}, {None})

Respond == Responds({Int7, B64Int7}, {"x"}, IssuedIds \cup {Bogus})

RequestPublish == Requests({"x"}, Timeouts)

\* blocking requests with timeout=None or timeout=0
RequestPublishUntimed == Requests({"x"}, Untimed)

\* the observer specification: one callback, and observers registered with
\* the bridge directly
RegisterAXY == Registers({"A"}, Channels, {None, "Request"})

DeregisterAXY == Deregisters({"A"}, Channels, {None, "Request"})

\* register_callback with an argument it is documented to reject
RegisterInvalid ==
  \E i \in Interfaces, a \in {<<NotCallable, "x">>, <<"A", NotAString>>} :
    register_callback(i, a[1], a[2], None)

Register == \E o \in Observers, c \in Channels : bridge_register(o, c)

Deregister == \E o \in Observers, c \in Channels \cup {None} : bridge_deregister(o, c)

\* a registered callback that makes a blocking request of its own
CallbackRequest == \E p \in Callers, t \in Timeouts : callback_request(p, t)

RequestWait == \E p \in Callers : request_wait(p)

\* message_type as a class, as None and as the name of a class; register_callback
\* turns the name into the class, deregister_callback takes it as it is
RegisterNamed ==
  \E i \in Interfaces, cb \in Callbacks, mt \in {None, "Request", "'Request'"} :
    register_callback(i, cb, "x", message_class(mt))

DeregisterNamed ==
  \E i \in Interfaces, cb \in Callbacks, mt \in {None, "Request", "'Request'"} :
    deregister_callback(i, cb, "x", mt)

RespondXY == Responds({Int7}, Channels, IssuedIds)

RegisterCheck == \E o \in Observers, c \in Channels : register_check(o, c)

RegisterCreate == register_create

RequestMiss == \E p \in Callers : request_miss(p)

RequestStore == \E p \in Callers : request_store(p)

RequestReturn == \E p \in Callers : request_return(p)

RequestTimeout == \E p \in Callers : request_timeout(p)

Start == start

Stop == stop

StopExpired == stop_expired

OnMessage == \E raisers \in SUBSET Callbacks : _on_message(raisers)

\* RedisBridge.__init__
Constructed ==
  /\ _message_processors = [i \in Interfaces |-> [k \in Keys |-> <<>>]]
  /\ _observers = [c \in {} |-> {}]
  /\ subscribed = {}
  /\ issued = NoIssue
  /\ last = [op |-> "init", raised |-> FALSE, added |-> FALSE]
  /\ _thread = "none"
  /\ inbound = <<>>
  /\ _responses = [r \in {} |-> <<>>]
  /\ callers = [p \in Callers |-> Idle]
  /\ nextId = 1
  /\ iterating = NoIteration
  /\ registered = <<>>
  /\ registering = NotRegistering

Init ==
  /\ Constructed
  /\ codec_in = Nothing
  /\ codec_wire = NoWire
  /\ codec_out = Nothing

\* an envelope to encode, or a text to decode
InitCodec ==
  /\ Constructed
  /\ codec_out = Nothing
  /\ \/ codec_in \in Envelopes /\ codec_wire = NoWire
     \/ codec_in = Nothing /\ codec_wire \in Wires

NextCodec == Encode \/ Decode

SpecCodec == InitCodec /\ [][NextCodec]_vars

\* The registry alone: any sequence of register_callback / deregister_callback.
NextRegistry == RegisterCallback \/ DeregisterCallback

SpecRegistry == Init /\ [][NextRegistry]_vars

\* The registry and the dispatch loop on one channel: envelopes of every kind
\* are published and dispatched to whatever is registered.
NextDispatch ==
  \/ RegisterAB
  \/ DeregisterAB
  \/ Start
  \/ SendX
  \/ RequestNonBlockingX
  \/ RespondX
  \/ OnMessage

SpecDispatch == Init /\ [][NextDispatch]_vars

\* The registry and the dispatch loop on two channels: Messages and Responses
\* are published and dispatched to whatever is registered.
NextChannels ==
  \/ RegisterAB
  \/ RegisterAY
  \/ DeregisterAB
  \/ Start
  \/ SendXY
  \/ RespondX
  \/ OnMessage

SpecChannels == Init /\ [][NextChannels]_vars

\* The bridge's observer table: callbacks and plain observers come and go.
NextObservers == RegisterAXY \/ DeregisterAXY \/ Register \/ Deregister

SpecObservers == Init /\ [][NextObservers]_vars

\* The registry called with arguments it is documented to reject.
NextArguments == RegisterAXY \/ DeregisterAXY \/ RegisterInvalid

SpecArguments == Init /\ [][NextArguments]_vars

\* Non-blocking requests: the caller gets the id back and correlates the
\* Response itself, through a registered callback.
NextNonBlocking ==
  \/ RegisterA
  \/ DeregisterA
  \/ Start
  \/ RequestNonBlockingX
  \/ Respond
  \/ OnMessage

SpecNonBlocking == Init /\ [][NextNonBlocking]_vars

\* Blocking requests made with timeout=None or timeout=0.
NextUntimed ==
  \/ RegisterA
  \/ Start
  \/ Respond
  \/ RequestPublishUntimed
  \/ RequestWait
  \/ RequestReturn
  \/ RequestTimeout
  \/ OnMessage

SpecUntimed == Init /\ [][NextUntimed]_vars

\* Blocking requests from foreground callers and from registered callbacks.
NextCallbackRequest ==
  \/ RegisterA
  \/ Start
  \/ SendX
  \/ Respond
  \/ RequestPublish
  \/ CallbackRequest
  \/ RequestWait
  \/ RequestReturn
  \/ RequestTimeout
  \/ OnMessage

SpecCallbackRequest == Init /\ [][NextCallbackRequest]_vars

\* start() and stop() around a callback that blocks in a request of its own.
NextRestart ==
  \/ RegisterA
  \/ DeregisterA
  \/ Start
  \/ Stop
  \/ StopExpired
  \/ RegisterAY
  \/ SendXY
  \/ Respond
  \/ CallbackRequest
  \/ RequestWait
  \/ RequestTimeout
  \/ OnMessage

SpecRestart == Init /\ [][NextRestart]_vars

\* Registry calls from the foreground while the worker is inside a callback.
NextConcurrent ==
  \/ RegisterA
  \/ DeregisterA
  \/ Start
  \/ SendX
  \/ CallbackRequest
  \/ RequestWait
  \/ RequestTimeout
  \/ OnMessage

SpecConcurrent == Init /\ [][NextConcurrent]_vars

\* Requests whose ids are drawn by uid(), and the answers to them.
RequestUid ==
  \E p \in Callers, id \in Uids : request_uid(p, Int7, "x", "positive", id)

RespondIssued ==
  \E p \in Callers : callers[p].pc # "idle" /\ respond(Int7, "x", callers[p].id)

NextUid ==
  \/ RegisterA
  \/ Start
  \/ RequestUid
  \/ RespondIssued
  \/ RequestWait
  \/ RequestReturn
  \/ RequestTimeout
  \/ OnMessage

SpecUid == Init /\ [][NextUid]_vars

\* Texts of other clients in the dispatch loop: envelopes with every key,
\* without 'data', of an unknown type, no JSON, and a Response whose
\* request_id is a list.
Foreign ==
  {w \in Wires : /\ w.channel = "x"
                 /\ w.id = MsgId
                 /\ w.data \in {Int7, AbsentData}
                 /\ w.type \in {"Message", "Response", Invalid}
                 /\ w.type = "Response" <=> w.request_id # NoId}
  \cup {w \in Wires : w.type = NotJson}

ForeignPublish == \E w \in Foreign : foreign_publish("x", w)

OnUndecodable == _on_message_undecodable

OnUnhashable == _on_message_unhashable

NextForeign ==
  \/ RegisterA
  \/ DeregisterA
  \/ Start
  \/ ForeignPublish
  \/ OnMessage
  \/ OnUndecodable
  \/ OnUnhashable

SpecForeign == Init /\ [][NextForeign]_vars

\* Responses to pending, ended and unknown requests.
NextRespond ==
  \/ RegisterA
  \/ Start
  \/ Respond
  \/ RequestPublish
  \/ RequestWait
  \/ RequestReturn
  \/ RequestTimeout
  \/ OnMessage

SpecRespond == Init /\ [][NextRespond]_vars

\* The caller's and the worker's accesses to self._responses, step by step.
NextRace ==
  \/ RegisterA
  \/ Start
  \/ Respond
  \/ RequestPublish
  \/ RequestWait
  \/ RequestMiss
  \/ RequestStore
  \/ RequestReturn
  \/ RequestTimeout
  \/ OnMessage

SpecRace == Init /\ [][NextRace]_vars

\* Two register calls for one new channel, one of them step by step.
NextRegisterRace ==
  \/ Register
  \/ Deregister
  \/ RegisterCheck
  \/ RegisterCreate

SpecRegisterRace == Init /\ [][NextRegisterRace]_vars

\* Registrations and deregistrations with every form of message_type.
NextNamed == RegisterNamed \/ DeregisterNamed \/ RegisterAY

SpecNamed == Init /\ [][NextNamed]_vars

\* Requests on x and Responses to them on x and on y.
NextCross ==
  \/ RegisterA
  \/ RegisterAY
  \/ Start
  \/ RequestPublish
  \/ RequestWait
  \/ RequestReturn
  \/ RequestTimeout
  \/ RespondXY
  \/ OnMessage

SpecCross == Init /\ [][NextCross]_vars

\* The whole bridge.
Next ==
  \/ RegisterA
  \/ DeregisterA
  \/ Start
  \/ Stop
  \/ SendX
  \/ Respond
  \/ RequestPublish
  \/ RequestWait
  \/ RequestReturn
  \/ RequestTimeout
  \/ OnMessage

Spec == Init /\ [][Next]_vars

\* ------------------------------------------------------------------ claims
HasEntry(c) == EntryCount(_message_processors, c) > 0

\* every entry of the callback tables, as a set
Entries(mps) ==
  {e \in [i : Interfaces, channel : Channels, filter : Filters, cb : Callbacks] :
     InSeq(e.cb, mps[e.i][<<e.channel, e.filter>>])}

\* C1: after any sequence of register_callback / deregister_callback calls the
\* bridge is subscribed on the transport to a channel if and only if at least
\* one registration entry exists for it.
C1_SubscribedIffEntry ==
  \A c \in Channels : (c \in subscribed) <=> HasEntry(c)

\* C4: deregister_callback(cb, channel, kind) leaves every entry that does not
\* match untouched: it is still in the table, and its interface still observes
\* its channel, so that later dispatches invoke it.
C4_Matches(e, i, cb, ch, mt) ==
  e.i = i /\ e.cb = cb /\ ch \in {e.channel, None} /\ mt \in {e.filter, None}

C4_DeregisterFrame ==
  [][\A i \in Interfaces, cb \in Callbacks, ch \in Channels \cup {None}, mt \in Filters :
       deregister_callback(i, cb, ch, mt) =>
         \A e \in Entries(_message_processors) :
           ~C4_Matches(e, i, cb, ch, mt) =>
              /\ e \in Entries(_message_processors')
              /\ (e.i \in _observers[e.channel] => e.i \in _observers'[e.channel])]_vars

\* C5: deregister_callback with a wildcard in either dimension completes
\* without raising and removes every matching entry of the callback.
C5_WildcardDeregister ==
  [][\A i \in Interfaces, cb \in Callbacks, ch \in Channels \cup {None}, mt \in Filters :
       (deregister_callback(i, cb, ch, mt) /\ (ch = None \/ mt = None)) =>
         /\ ~last'.raised
         /\ \A e \in Entries(_message_processors') : ~C4_Matches(e, i, cb, ch, mt)]_vars

\* C10: a step issues exactly one transport unsubscribe for a channel when the
\* channel's entry count goes from positive to zero in that step, and none
\* otherwise.
C10_OneUnsubscribePerDrop ==
  [][\A c \in Channels :
       issued'.unsub[c] =
         IF HasEntry(c) /\ EntryCount(_message_processors', c) = 0 THEN 1 ELSE 0]_vars


\* ---- dispatch
Dispatched == last.op = "_on_message"

\* the observers _on_message forwards the last dispatched envelope to
Targets ==
  IF last.message.channel \in DOMAIN _observers
    THEN _observers[last.message.channel] ELSE {}

\* the callbacks interface i ran for the last dispatched envelope, in order
CallsOf(i) ==
  LET Mine(call) == call[1] = i
      mine == SelectSeq(last.calls, Mine)
  IN [n \in 1..Len(mine) |-> mine[n][2]]

\* the entries of interface i that match the last dispatched envelope under
\* the kind-filters in `filters`, in the order they were registered
InOrder(i, filters) ==
  LET Match(e) == /\ e.i = i
                  /\ e.channel = last.message.channel
                  /\ e.filter \in filters
      es == SelectSeq(registered, Match)
  IN [n \in 1..Len(es) |-> es[n].cb]

C7_OnlyRegisteredMatching ==
  Dispatched =>
    \A n \in 1..Len(last.calls) :
      /\ last.calls[n][1] \in Targets
      /\ \E m \in 1..Len(registered) :
           /\ registered[m].i = last.calls[n][1]
           /\ registered[m].cb = last.calls[n][2]
           /\ registered[m].channel = last.message.channel
           /\ registered[m].filter \in {None, last.message.kind}

\* C7 witness: a Message on x ran a callback while another callback, filtered
\* on Request on x, was left out.
C7_Witness ==
  /\ Dispatched
  /\ last.message.kind = "Message"
  /\ last.calls = <<<<"ci", "A">>>>
  /\ \E m \in 1..Len(registered) :
       registered[m] = Entry("ci", "x", "Request", "B")

\* C8: when a callback raises on an envelope, every other callback matching
\* the envelope is still invoked for it (and nothing escapes _on_message).
C8_RaiseIsolated ==
  (Dispatched /\ last.raisers # {}) =>
     /\ ~last.raised
     /\ \A m \in 1..Len(registered) :
          (/\ registered[m].i \in Targets
           /\ registered[m].channel = last.message.channel
           /\ registered[m].filter \in {None, last.message.kind})
          => InSeq(<<registered[m].i, registered[m].cb>>, last.calls)

\* ---- request / response
\* a Response to p's request is buffered for the dispatch loop
Buffered(p) ==
  \E n \in 1..Len(inbound) :
    inbound[n].type = "Response" /\ inbound[n].request_id = callers[p].id

\* C2: on a started bridge a blocking request does not time out once a
\* responder has published the Response to it on its channel (unless that
\* Response is still waiting in the dispatch loop's buffer).
C2_AnsweredRequestReturns ==
  [][\A p \in Callers :
       (callers[p].pc = "waiting" /\ callers'[p].pc = "raised") =>
          ~(callers[p].answered /\ ~Buffered(p))]_vars

\* C3: a blocking request that returns hands back a Response whose request_id
\* is the id of the Request it sent, never None and never the Response to
\* another id; it fails with the timeout error only under a positive timeout.
C3_ReturnsOwnResponseOrTimesOut ==
  \A p \in Callers :
    /\ callers[p].pc = "returned" =>
         /\ callers[p].result.kind = "Response"
         /\ callers[p].result.request_id = callers[p].id
    /\ callers[p].pc = "raised" => callers[p].timeout = "positive"

\* C3 witness: a request has returned its Response while a Response to
\* another request id was processed and stays in its own slot.
C3_Witness ==
  \E p \in Callers :
    /\ callers[p].pc = "returned"
    /\ callers[p].result.request_id = callers[p].id
    /\ Bogus \in DOMAIN _responses
    /\ _responses[Bogus] # <<>>

\* C9: on a started bridge an envelope published on a channel that has a
\* registered callback reaches the dispatch loop, also after stop() and
\* start().
C9_EntrySurvivesRestart ==
  [][(last'.op = "send" /\ _thread = "alive" /\ HasEntry("x")) =>
        inbound' # inbound]_vars

\* ---- deregistration of what is not registered
\* C11: deregistering what is not registered is a no-op and never an error:
\* deregister_callback of a callback with no matching entry, and
\* RedisBridge.deregister(observer, channel) for an unknown channel or one the
\* observer is not registered on, return normally and leave the callback
\* table, the observer sets and the subscriptions as they were.
C11_DeregisterAbsentNoOp ==
  [][/\ \A i \in Interfaces, cb \in Callbacks, ch \in Channels \cup {None}, mt \in Filters :
          (/\ deregister_callback(i, cb, ch, mt)
           /\ Matching(_message_processors[i], cb, ch, mt) = {})
          => (~last'.raised /\ UNCHANGED <<registry, subscribed>>)
     /\ \A o \in Observers, c \in Channels :
          (/\ bridge_deregister(o, c)
           /\ (c \notin DOMAIN _observers \/ o \notin _observers[c]))
          => (~last'.raised /\ UNCHANGED <<registry, subscribed>>)]_vars

\* ---- repeated registration
\* the exact tuple (cb, c, mt) is in interface i's table
C12_Has(i, cb, c, mt) ==
  \E n \in DOMAIN _message_processors[i][<<c, mt>>] :
    _message_processors[i][<<c, mt>>][n] = cb

\* no list of the callback tables holds a callback twice
C12_NoDuplicateEntries ==
  \A i \in Interfaces, k \in Keys :
    \A m, n \in DOMAIN _message_processors[i][k] :
      _message_processors[i][k][m] = _message_processors[i][k][n] => m = n

C13_NewTupleIsAdded ==
  [][\A i \in Interfaces, cb \in Callbacks, c \in Channels, mt \in Filters :
       (register_callback(i, cb, c, mt) /\ ~C12_Has(i, cb, c, mt))
       => \E n \in DOMAIN _message_processors'[i][<<c, mt>>] :
            _message_processors'[i][<<c, mt>>][n] = cb]_vars

\* ---- rejected arguments
\* C14: register_callback with a non-string channel or a non-callable callback
\* reports the problem without raising and leaves the callback table, the
\* observer sets and the subscriptions as they were.
C14_InvalidArgumentsRejected ==
  [][\A i \in Interfaces, mt \in Filters :
       /\ \A c \in Channels :
            register_callback(i, NotCallable, c, mt)
            => (~last'.raised /\ UNCHANGED <<registry, subscribed>>)
       /\ \A cb \in Callbacks :
            register_callback(i, cb, NotAString, mt)
            => (~last'.raised /\ UNCHANGED <<registry, subscribed>>)]_vars

\* ---- correlation table
\* C15: a blocking request returns the first Response to its id; a further
\* Response to the same id is dropped: once the request has returned, the
\* correlation table holds no Response under its id.
C15_SecondResponseDropped ==
  \A p \in Callers :
    (callers[p].pc = "returned" /\ callers[p].id \in DOMAIN _responses)
    => _responses[callers[p].id] = <<>>

\* the ids of the blocking requests that have published and not yet ended
PendingIds == {callers[p].id : p \in {q \in Callers : callers[q].pc \in {"published", "waiting"}}}

\* C16: processing a Response whose request_id belongs to no pending request
\* (nobody is waiting, or the request timed out) discards it: no slot is
\* created or filled for it and every other slot is as it was.
C16_UnmatchedResponseDiscarded ==
  [][(/\ last'.op = "_on_message"
      /\ inbound # <<>>
      /\ inbound' = Tail(inbound)
      /\ decode(Head(inbound)).kind = "Response"
      /\ decode(Head(inbound)).request_id \notin PendingIds)
     => _responses' = _responses]_vars

\* the ids handed out to requests no blocking caller owns: the non-blocking ones
NonBlockingIds == {r \in IssuedIds : \A p \in Callers : callers[p].id # r}

\* C17: a non-blocking request creates no wait slot, and a Response to its id
\* delivered afterwards creates no state in the correlation table.
C17_NonBlockingBypassesCorrelator ==
  \A r \in NonBlockingIds : r \notin DOMAIN _responses

\* ---- waiting
\* C18: a blocking request made with timeout=0 or timeout=None never fails
\* with the timeout error: it blocks until its Response is delivered.
C18_UntimedNeverTimesOut ==
  \A p \in Callers :
    callers[p].pc = "raised" => callers[p].timeout \notin Untimed

\* C19: a blocking request never blocks the dispatch loop: while a request is
\* waiting, from whatever context it was made, a started bridge that has an
\* envelope buffered can process it.
C19_LoopRunsWhileRequestWaits ==
  (/\ \E p \in Callers : callers[p].pc \in {"published", "waiting"}
   /\ _thread # "none"
   /\ inbound # <<>>)
  => ENABLED OnMessage

\* ---- start and stop
\* C20: start() is idempotent: after any sequence of start() and stop() calls,
\* a stop whose timeout expires before the loop has exited included, at most
\* one dispatch loop is active, and start() never raises.
C20_AtMostOneLoop ==
  /\ Loops <= 1
  /\ last.op = "start" => ~last.raised

\* C21: stop() without a timeout returns only after the dispatch loop has
\* terminated: when it returns no worker thread of the bridge is running, and
\* while none is running no envelope is dispatched and no Response is put into
\* the correlation table.
C21_StopReturnsAfterLoopEnded ==
  [][/\ stop => Loops' = 0
     /\ Loops = 0
          => /\ last'.op # "_on_message"
             /\ \A r \in DOMAIN _responses' :
                  IF r \in DOMAIN _responses
                    THEN Len(_responses'[r]) <= Len(_responses[r])
                    ELSE _responses'[r] = <<>>]_vars

\* a worker thread is inside _on_message, blocked in a callback
InDispatch == _thread \in {"busy", "abandoned", "two"}

\* C22: dispatch is serial: while a worker is inside _on_message for one
\* envelope, _on_message cannot begin for another one.
C22_DispatchIsSerial == InDispatch => ~ENABLED OnMessage

\* C23: register / deregister calls made from the foreground while the
\* dispatch loop is running never make the loop fail or terminate: a worker
\* that is inside a dispatch, and has not been told to stop, is still there
\* after every step.
C23_LoopSurvivesRegistryCalls ==
  [][_thread = "busy" => _thread' # "none"]_vars

\* ---- codec
\* C24: decoding the encoded envelope gives an envelope of the same kind with
\* equal id, channel, payload and request_id, for every kind and every
\* payload the codec accepts, strings included.
C24_RoundTrip ==
  (codec_in # Nothing /\ codec_out # Nothing) => codec_out = codec_in

\* C25 as stated: decode fails exactly when id, channel or kind is absent or
\* the kind is no recognized variant.
C25_FailsOnlyOnIdChannelKind ==
  (codec_in = Nothing /\ codec_out # Nothing) =>
     (codec_out = DecodeError
        <=> \/ codec_wire.id = NoId
            \/ codec_wire.channel = Absent
            \/ codec_wire.type \notin Kinds)

\* C25: decode fails exactly when the bytes are no JSON, one of the keys
\* type, id, channel, data (and request_id, for a Response) is absent, or the
\* type is no recognized variant; whenever those keys are present and the type
\* is recognized it returns the envelope, whatever the payload is.
C25_FailsExactlyOnStructure ==
  (codec_in = Nothing /\ codec_out # Nothing) =>
     /\ (/\ codec_wire.type \in Kinds
         /\ codec_wire.id # NoId
         /\ codec_wire.channel # Absent
         /\ codec_wire.data \in Datas
         /\ codec_wire.type = "Response" => codec_wire.request_id # NoId)
        => /\ codec_out.kind = codec_wire.type
           /\ codec_out.id = codec_wire.id
           /\ codec_out.channel = codec_wire.channel
     /\ (\/ codec_wire.type \in {Invalid, Absent, NotJson}
         \/ codec_wire.id = NoId
         \/ codec_wire.channel = Absent
         \/ codec_wire.data = AbsentData
         \/ codec_wire.type = "Response" /\ codec_wire.request_id = NoId)
        => codec_out = DecodeError

\* C25 witness: a text whose payload is a string that is no pickle has been
\* decoded into an envelope.
C25_Witness ==
  /\ codec_in = Nothing
  /\ codec_wire.type = "Response"
  /\ codec_wire.data = StrAbc
  /\ codec_out.kind = "Response"
  /\ codec_out.data = StrAbc

\* ---- ids
\* C26: two envelopes created in one process have different ids: a request
\* never gets the id of the request its caller made before, and no Response
\* carrying its id is buffered or queued at the moment it is created, so no
\* Response to another request can be delivered to it.
C26_RequestIdsDiffer ==
  [][\A p \in Callers :
       (callers[p].pc \in {"idle", "returned", "raised"} /\ callers'[p].pc = "published")
       => /\ callers[p].pc # "idle" => callers'[p].id # callers[p].id
          /\ Replies(callers'[p].id) = 0]_vars

\* ---- respond
\* C27: respond(payload, channel, request_id) is accepted for any request id,
\* also one that matches no outstanding request or one whose request timed
\* out: it raises nothing, publishes exactly one Response carrying that
\* request_id on the channel, and changes neither the registry nor a wait
\* slot nor the state of a waiting request.
C27_RespondAlwaysAccepted ==
  [][last'.op = "respond" =>
     \A d \in Datas, c \in Channels, r \in IssuedIds \cup {Bogus} :
       respond(d, c, r)
       => /\ ~last'.raised
          /\ UNCHANGED <<registry, subscribed, _responses, _thread>>
          /\ \A p \in Callers : /\ callers'[p].pc = callers[p].pc
                                 /\ callers'[p].result = callers[p].result
          /\ IF c \in subscribed
               THEN /\ Len(inbound') = Len(inbound) + 1
                    /\ SubSeq(inbound', 1, Len(inbound)) = inbound
                    /\ inbound'[Len(inbound')].type = "Response"
                    /\ inbound'[Len(inbound')].channel = c
                    /\ inbound'[Len(inbound')].request_id = r
               ELSE inbound' = inbound]_vars

\* C27 witness: a Response to a request that has timed out has been published
\* and is buffered for the dispatch loop.
C27_Witness ==
  /\ last.op = "respond"
  /\ inbound # <<>>
  /\ \E p \in Callers :
       /\ callers[p].pc = "raised"
       /\ inbound[Len(inbound)].type = "Response"
       /\ inbound[Len(inbound)].request_id = callers[p].id

\* ---- malformed input
\* C28: for every inbound message, malformed or well-formed, _on_message
\* returns normally and the loop goes on: a message that fails decoding invokes
\* no callback and changes neither the registry nor the correlation table, and
\* no content of a decodable envelope ends the loop.
C28_LoopSurvivesEveryMessage ==
  [][last'.op = "_on_message"
       => /\ ~last'.raised
          /\ _thread' = _thread
          /\ decode_raises(Head(inbound))
               => /\ last'.calls = <<>>
                  /\ UNCHANGED <<registry, _responses>>]_vars

\* ---- correlation table
\* C29: the correlation table holds a slot for a request id only while a
\* blocking request with that id is waiting: the slot keys are the ids of the
\* request calls that are blocked in their wait.
C29_SlotsAreTheWaitingRequests ==
  DOMAIN _responses = {callers[p].id : p \in {q \in Callers : callers[q].pc = "waiting"}}

\* the queue of request id rid, empty where the table has none
Queued(rs, rid) == IF rid \in DOMAIN rs THEN rs[rid] ELSE <<>>

C31_NoResponseLost ==
  \A p \in Callers :
    (/\ callers[p].pc = "waiting"
     /\ callers[p].answered
     /\ ~Buffered(p))
    => _responses[callers[p].id] # <<>>

\* C32: when two register calls for distinct observers and one new channel
\* run concurrently, both observers are in the channel's set once both have
\* returned: the call that finishes last adds its observer and removes none.
C32_ConcurrentRegistersBothKept ==
  [][(registering # NotRegistering /\ registering' = NotRegistering)
       => /\ registering.observer \in _observers'[registering.channel]
          /\ registering.channel \in DOMAIN _observers
               => _observers[registering.channel]
                    \subseteq _observers'[registering.channel]]_vars

\* ---- the interface as an observer
\* the interface is in the observer set of the channel
Observing(i, c) == c \in DOMAIN _observers /\ i \in _observers[c]

\* C33: a CallbackInterface is in the bridge's observer set of channel c if
\* and only if it holds at least one callback for c under some kind-filter,
\* and no step takes it out of the set of a channel for which it still holds
\* a callback afterwards.
C33_ObserverIffHoldsCallback ==
  [][\A i \in Interfaces, c \in Channels :
       /\ Observing(i, c)' <=> EntryCount(_message_processors', c) > 0
       /\ (Observing(i, c) /\ EntryCount(_message_processors', c) > 0)
            => Observing(i, c)']_vars

\* C34: deregister_callback(cb, ch, k) right after the register_callback(cb,
\* ch, k) that added an entry removes that entry and leaves the registered
\* callbacks as they were before the register, and subscribes nothing, for k
\* None, a message class and the name of a message class.
C34_DeregisterUndoesRegister ==
  [][\A i \in Interfaces, cb \in Callbacks, mt \in {None, "Request", "'Request'"} :
       (/\ last.op = "register_callback"
        /\ last.added
        /\ registered # <<>>
        /\ registered[Len(registered)] = Entry(i, "x", message_class(mt), cb)
        /\ deregister_callback(i, cb, "x", mt))
       => /\ ~InSeq(cb, _message_processors'[i][<<"x", message_class(mt)>>])
          /\ registered' = SubSeq(registered, 1, Len(registered) - 1)
          /\ subscribed' \subseteq subscribed]_vars

\* ---- invocation
\* C35: for one inbound envelope a CallbackInterface invokes each of its
\* registered callbacks at most once, whatever the order and the kind-filters
\* of its registrations on the channel.
C35_EachCallbackAtMostOnce ==
  last.op = "_on_message" =>
    \A n, m \in 1..Len(last.calls) : last.calls[n] = last.calls[m] => n = m

\* C36: within one CallbackInterface the callbacks matching an envelope are
\* invoked with those registered for the envelope's exact kind first and those
\* registered under any after them, each group in its registration order: the
\* calls of a dispatch (and so the list of their results) are that sequence,
\* or its beginning up to the callback that raised.
C36_KindGroupThenAnyGroup ==
  Dispatched =>
    \A i \in Targets :
      LET expected == InOrder(i, {last.message.kind}) \o InOrder(i, {None})
          calls    == CallsOf(i)
      IN /\ Len(calls) <= Len(expected)
         /\ calls = SubSeq(expected, 1, Len(calls))
         /\ last.raisers = {} => Len(calls) = Len(expected)
         /\ Len(calls) < Len(expected) => calls[Len(calls)] \in last.raisers

\* C36 witness: B was registered first under any, A second under Request, and
\* a Request on x has run A and then B.
C36_Witness ==
  /\ Dispatched
  /\ last.message.kind = "Request"
  /\ last.raisers = {}
  /\ registered = <<Entry("ci", "x", None, "B"), Entry("ci", "x", "Request", "A")>>
  /\ last.calls = <<<<"ci", "A">>, <<"ci", "B">>>>

\* ---- correlation across channels
\* C37: correlation is by request id alone: a Response that the dispatch loop
\* processes is queued for the request with its request_id on whatever
\* channel it arrived, so the waiting request can return it; and a Response
\* published on a channel the bridge is not subscribed to reaches neither the
\* dispatch loop nor a slot nor a waiting request.
C37_CorrelationByIdOnly ==
  [][/\ (last'.op = "_on_message" /\ ~decode_raises(Head(inbound))
          /\ decode(Head(inbound)).kind = "Response")
         => LET message == decode(Head(inbound))
                slot    == Queued(_responses', message.request_id)
            IN /\ slot # <<>>
               /\ slot[Len(slot)] = message
               /\ \A p \in Callers :
                    (callers[p].pc = "waiting" /\ callers[p].id = message.request_id)
                    => /\ callers'[p].pc = "waiting"
                       /\ _responses'[callers'[p].id] # <<>>
     /\ last'.op = "respond"
         => \A c \in Channels \ subscribed, r \in IssuedIds :
              respond(Int7, c, r)
              => /\ inbound' = inbound
                 /\ _responses' = _responses
                 /\ \A p \in Callers : /\ callers'[p].pc = callers[p].pc
                                        /\ callers'[p].result = callers[p].result]_vars

\* C37 witness: a request sent on x has returned a Response that arrived on y.
C37_Witness ==
  \E p \in Callers :
    /\ callers[p].pc = "returned"
    /\ callers[p].channel = "x"
    /\ callers[p].result.channel = "y"
    /\ callers[p].result.request_id = callers[p].id

====
